---- MODULE Spec2Model ----
(***************************************************************************)
(* GQLServer: the PostgreSQL-wire adapter of src/git_backend.              *)
(*                                                                         *)
(* One connection handler (GitQLBackend) with its statement cache, the     *)
(* three request handlers (simple query, portal Describe, Execute), the    *)
(* result projection they share, the column describer (encode_column) and  *)
(* the row encoder (encode_row).                                           *)
(*                                                                         *)
(* A statement text is a sequence of one-character strings, so that        *)
(* split(';'), to_lowercase(), to_uppercase() and starts_with() are        *)
(* computed on the characters.  Vec indexes are 0-based in the source and  *)
(* 1-based here: source index i is position i + 1.                         *)
(***************************************************************************)
EXTENDS Integers, Sequences, FiniteSets, TLC

VARIABLES
    db,         \* the data source: what the repositories hold now
    cache,      \* GitQLBackend.query_cache: statement text -> GitQLObject
    alive,      \* FALSE once a handler panicked (the connection task is gone)
    req,        \* the last request: [kind, text]
    resp,       \* the response to the last request
    shown,      \* the GitQLObject the last response was built from, or NoObject
    evald,      \* the text tokenized and the engine result of the last request, or NoEval
    repeats,    \* how many times in a row the last request has now been issued
    watch,      \* a statement text picked at the start of the session, or NoWatch
    watched,    \* TRUE once a portal Describe was issued for the text `watch`
    pin,        \* the input of a function applied on its own
    pout,       \* its output
    conc,       \* requests running at once on one cache: the Mutex and each task
    life,       \* a simple query followed step by step: its stage and what it holds
    peer        \* the handler of a second connection: its cache and its last request

vars == <<db, cache, alive, req, resp, shown, evald, repeats, watch, watched,
          pin, pout, conc, life, peer>>

-----------------------------------------------------------------------------
(* Bounds of the model.                                                    *)

MaxTitles == 3   \* longest title list of an engine result (SpecFn)
MaxGroups == 2   \* most groups of an engine result (SpecFn)
MaxRows == 2     \* most rows of one group (SpecFn)
MaxRepeats == 2  \* `repeats` counts up to this
MaxTasks == 2    \* requests running at once on one cache (SpecLock)
MaxWidth == 2    \* most values of a row handed to encode_row on its own (SpecFn)
MaxParams == 2   \* most declared types and most bound values of a portal (SpecParam)

-----------------------------------------------------------------------------
(* Strings.                                                                *)

RECURSIVE SeqToSet(_)
SeqToSet(s) == IF s = <<>> THEN {} ELSE {Head(s)} \cup SeqToSet(Tail(s))

\* str::to_lowercase, per character (the letters the statements use)
LowerChar(c) ==
    CASE c = "S" -> "s" [] c = "E" -> "e" [] c = "T" -> "t"
      [] c = "A" -> "a" [] c = "B" -> "b" [] c = "U" -> "u"
      [] c = "D" -> "d" [] c = "L" -> "l" [] c = "O" -> "o" [] c = "C" -> "c"
      [] OTHER -> c

\* str::to_uppercase, per character
UpperChar(c) ==
    CASE c = "s" -> "S" [] c = "e" -> "E" [] c = "t" -> "T"
      [] c = "a" -> "A" [] c = "b" -> "B" [] c = "u" -> "U"
      [] c = "d" -> "D" [] c = "l" -> "L" [] c = "o" -> "O" [] c = "c" -> "C"
      [] OTHER -> c

ToLowercase(s) == [i \in 1..Len(s) |-> LowerChar(s[i])]
ToUppercase(s) == [i \in 1..Len(s) |-> UpperChar(s[i])]

Reverse(s) == [i \in 1..Len(s) |-> s[Len(s) + 1 - i]]

\* str::starts_with
StartsWith(s, p) == Len(s) >= Len(p) /\ SubSeq(s, 1, Len(p)) = p

\* a split that keeps the whole text
SplitFirstKeepsAll(s) == s

\* s.split(';').next().unwrap(): the text before the first ';'
RECURSIVE SplitFirst(_)
SplitFirst(s) ==
    IF s = <<>> \/ Head(s) = ";" THEN <<>> ELSE <<Head(s)>> \o SplitFirst(Tail(s))

SetPrefix == <<"s", "e", "t">>
DeallocatePrefix == <<"D", "E", "A", "L", "L", "O", "C", "A", "T", "E">>

\* a check for the prefix as it is written, lower case only
IsSessionControlExact(text) == StartsWith(text, SetPrefix)

\* query.to_lowercase().starts_with("set")
IsSessionControl(text) == StartsWith(ToLowercase(text), SetPrefix)

\* query.to_uppercase().starts_with("DEALLOCATE")
IsDeallocate(text) == StartsWith(ToUppercase(text), DeallocatePrefix)

-----------------------------------------------------------------------------
(* The engine's data: gitql_ast Value, Row, Group, GitQLObject.            *)

\* gitql_ast::types::DataType, the variants encode_column names and three others
SupportedTypes == {"Text", "Integer", "Float", "Boolean", "Date", "Time", "DateTime"}
OtherTypes == {"Any", "Undefined", "Null"}
DataTypes == SupportedTypes \cup OtherTypes

\* git_schema::TABLES_FIELDS_TYPES: column title -> DataType (a HashMap; a
\* title that is not a key, such as an alias, has no entry)
SchemaTitles ==
    {"name", "size", "ratio", "is_head", "date", "time", "datetime",
     "any", "undefined", "null"}

TABLES_FIELDS_TYPES ==
    [t \in SchemaTitles |->
        CASE t = "name" -> "Text"
          [] t = "size" -> "Integer"
          [] t = "ratio" -> "Float"
          [] t = "is_head" -> "Boolean"
          [] t = "date" -> "Date"
          [] t = "time" -> "Time"
          [] t = "datetime" -> "DateTime"
          [] t = "any" -> "Any"
          [] t = "undefined" -> "Undefined"
          [] t = "null" -> "Null"]

\* the titles the engine results are enumerated over: two columns of a
\* supported type and one of a type outside the mapping
ResultTitles == {"name", "size", "any"}

\* the Value variant the engine produces in a column
ValueVariant(title) ==
    CASE title = "name" -> "Text"
      [] title = "size" -> "Integer"
      [] title = "alias" -> "Integer"
      [] OTHER -> "Null"

\* the value in column `title` of row r of group g; its data names the cell
Cell(title, g, r) == [variant |-> ValueVariant(title), data |-> <<title, g, r>>]

MakeRow(titles, g, r) == [values |-> [i \in 1..Len(titles) |-> Cell(titles[i], g, r)]]

\* a GitQLObject with the given titles and, per group, the given number of rows
MakeObject(titles, shape) ==
    [titles |-> titles,
     groups |-> [g \in 1..Len(shape) |->
                    [rows |-> [r \in 1..shape[g] |-> MakeRow(titles, g, r)]]]]

\* sequences over S of length n without repetition
RECURSIVE InjSeqs(_, _)
InjSeqs(S, n) ==
    IF n = 0 THEN {<<>>}
    ELSE {q \in {Append(s, x) : s \in InjSeqs(S, n - 1), x \in S} :
            \A i, j \in 1..n : q[i] = q[j] => i = j}

TitleLists == UNION {InjSeqs(ResultTitles, n) : n \in 0..MaxTitles}

Shapes == UNION {[1..n -> 0..MaxRows] : n \in 0..MaxGroups}

\* EvaluationResult::SelectedGroups(groups, hidden_selection)
SelectedGroups(obj, hidden) == [kind |-> "SelectedGroups", groups |-> obj, hidden |-> hidden]

\* the other EvaluationResult (a statement that selects nothing)
Acknowledged == [kind |-> "Acknowledged"]

\* every selected-groups result within the bounds
AllSelections ==
    {SelectedGroups(MakeObject(t, sh), h) :
        t \in TitleLists, sh \in Shapes, h \in SUBSET ResultTitles}

-----------------------------------------------------------------------------
(* Result projection: mod.rs 116-134 (simple query) and 284-302 (Describe). *)

Panic == [panic |-> TRUE]
Done(v) == [panic |-> FALSE, value |-> v]

\* Vec::remove(index), index 0-based in the source, position i here
RemoveAt(s, i) == SubSeq(s, 1, i - 1) \o SubSeq(s, i + 1, Len(s))

\* for (index, title) in titles.iter().enumerate():
\*     if hidden_selection.contains(title) { indexes.insert(0, index) }
RECURSIVE HiddenIndexesFrom(_, _, _, _)
HiddenIndexesFrom(titles, hidden, i, indexes) ==
    IF i > Len(titles) THEN indexes
    ELSE HiddenIndexesFrom(titles, hidden, i + 1,
            IF titles[i] \in hidden THEN <<i>> \o indexes ELSE indexes)

\* the hidden positions collected with push instead of insert(0, ..): lowest first
HiddenIndexesAscending(titles, hidden) ==
    Reverse(HiddenIndexesFrom(titles, hidden, 1, <<>>))

HiddenIndexes(titles, hidden) == HiddenIndexesFrom(titles, hidden, 1, <<>>)

\* the rows of all groups, group after group
RECURSIVE ConcatRows(_)
ConcatRows(groups) ==
    IF groups = <<>> THEN <<>> ELSE Head(groups).rows \o ConcatRows(Tail(groups))

\* GitQLObject::flat: one group holding the rows of all groups
Flat(obj) == [obj EXCEPT !.groups = << [rows |-> ConcatRows(obj.groups)] >>]

\* a flattening that starts one group too late: groups.len() > 2
FlatIfMoreThanTwo(obj) == IF Len(obj.groups) > 2 THEN Flat(obj) ELSE obj

\* if groups.len() > 1 { groups.flat() }
FlatIfMany(obj) == IF Len(obj.groups) > 1 THEN Flat(obj) ELSE obj

\* for index in indexes {
\*     groups.titles.remove(index);
\*     for row in &mut groups.groups[0].rows { row.values.remove(index); } }
\* groups.groups[0] panics when there is no group, Vec::remove when the
\* index is past the end.
RECURSIVE RemoveHidden(_, _)
RemoveHidden(obj, indexes) ==
    IF indexes = <<>> THEN Done(obj)
    ELSE LET index == Head(indexes) IN
         IF index > Len(obj.titles) \/ obj.groups = <<>> THEN Panic
         ELSE LET rows == obj.groups[1].rows IN
              IF \E r \in 1..Len(rows) : index > Len(rows[r].values) THEN Panic
              ELSE RemoveHidden(
                     [titles |-> RemoveAt(obj.titles, index),
                      groups |-> [obj.groups EXCEPT ![1] =
                         [rows |-> [r \in 1..Len(rows) |->
                             [values |-> RemoveAt(rows[r].values, index)]]]]],
                     Tail(indexes))

\* the projection of SelectedGroups(groups, hidden_selection)
Project(groups, hidden) ==
    RemoveHidden(FlatIfMany(groups), HiddenIndexes(groups.titles, hidden))

-----------------------------------------------------------------------------
(* Column describer: git_column.rs.                                        *)

\* a match that gives DateTime a wire type of its own and accepts Any as text
WireTypeOther(type) ==
    CASE type = "Text" -> "TEXT"
      [] type = "Integer" -> "INT8"
      [] type = "Float" -> "FLOAT8"
      [] type = "Boolean" -> "BOOL"
      [] type = "Time" -> "TIME"
      [] type = "Date" -> "DATE"
      [] type = "DateTime" -> "TIMESTAMP"
      [] type = "Any" -> "TEXT"
      [] OTHER -> "Err"

\* the match of encode_column: DataType -> pgwire Type, or the error arm
WireType(type) ==
    CASE type = "Text" -> "TEXT"
      [] type = "Integer" -> "INT8"
      [] type = "Float" -> "FLOAT8"
      [] type = "Boolean" -> "BOOL"
      [] type = "Time" -> "TIME"
      [] type = "Date" -> "DATE"
      [] type = "DateTime" -> "TIME"
      [] OTHER -> "Err"

\* Format::UnifiedText.format_for(index)
FormatFor(index) == "Text"

\* encode_column(string, index): TABLES_FIELDS_TYPES[string] panics when the
\* title is no key of the map
EncodeColumn(string, index) ==
    IF string \notin DOMAIN TABLES_FIELDS_TYPES THEN Panic
    ELSE LET wire == WireType(TABLES_FIELDS_TYPES[string]) IN
         IF wire = "Err" THEN Done([ok |-> FALSE])
         ELSE Done([ok |-> TRUE,
                    field |-> [name |-> string, datatype |-> wire,
                               format |-> FormatFor(index)]])

\* for (index, title) in groups.titles.iter().enumerate() {
\*     let field_result = encode_column(title, index);
\*     if field_result.is_err() { continue; }
\*     fields_info.push(field_result.ok().unwrap()); }
RECURSIVE FieldsInfoFrom(_, _, _)
FieldsInfoFrom(titles, i, fields_info) ==
    IF i > Len(titles) THEN Done(fields_info)
    ELSE LET field_result == EncodeColumn(titles[i], i - 1) IN
         IF field_result.panic THEN Panic
         ELSE IF ~field_result.value.ok THEN FieldsInfoFrom(titles, i + 1, fields_info)
         ELSE FieldsInfoFrom(titles, i + 1, Append(fields_info, field_result.value.field))

FieldsInfo(titles) == FieldsInfoFrom(titles, 1, <<>>)

-----------------------------------------------------------------------------
(* Row encoder: git_row.rs.                                                *)

EncodedVariants == {"Text", "Integer", "Float", "Boolean", "Time", "Date", "DateTime"}

\* a match without the DateTime arm: a DateTime falls to the `_` arm
EncodeValueWithoutDateTime(value) ==
    IF value.variant \in EncodedVariants \ {"DateTime"}
    THEN [null |-> FALSE, variant |-> value.variant, data |-> value.data]
    ELSE [null |-> TRUE]

\* the match of encode_row on one value: the value, or SQL null
EncodeValue(value) ==
    IF value.variant \in EncodedVariants
    THEN [null |-> FALSE, variant |-> value.variant, data |-> value.data]
    ELSE [null |-> TRUE]

\* one row: DataRowEncoder::encode_field reads schema[col_index], which
\* panics when the row has more values than there are field descriptors
EncodeOneRow(row, fields_info) ==
    IF Len(row.values) > Len(fields_info) THEN Panic
    ELSE Done([i \in 1..Len(row.values) |-> EncodeValue(row.values[i])])

\* encode_row(groups, fields_info): groups.groups[0] panics when there is no group
EncodeRow(groups, fields_info) ==
    IF groups.groups = <<>> THEN Panic
    ELSE LET rows == groups.groups[1].rows
             enc == [r \in 1..Len(rows) |-> EncodeOneRow(rows[r], fields_info)]
         IN IF \E r \in 1..Len(rows) : enc[r].panic THEN Panic
            ELSE Done([r \in 1..Len(rows) |-> enc[r].value])

-----------------------------------------------------------------------------
(* The collaborators the handlers call: tokenizer, parser, engine.  Their  *)
(* outcome is a function of the text they are handed and of the data       *)
(* source: '#' is a character the tokenizer rejects, '?' a token the       *)
(* parser rejects, '!' makes the evaluation fail, a statement whose first  *)
(* token is 'u' or 's' selects nothing, 'b' selects the rows in reverse    *)
(* order, every other statement selects the data source as it is; over an  *)
(* unreadable data source every evaluation fails.                          *)

Ok(v) == [ok |-> TRUE, value |-> v]
Err(stage) == [ok |-> FALSE, stage |-> stage]

NotSpace(c) == c # " "

\* tokenizer::tokenize(query.to_string())
Tokenize(query) ==
    IF "#" \in SeqToSet(query) THEN Err("tokenize") ELSE Ok(SelectSeq(query, NotSpace))

\* parser::parse_gql(tokens, &mut env)
ParseGql(tokens) ==
    IF "?" \in SeqToSet(tokens) THEN Err("parse") ELSE Ok(tokens)

ReverseRows(obj) ==
    [obj EXCEPT !.groups = [g \in 1..Len(obj.groups) |->
                               [rows |-> Reverse(obj.groups[g].rows)]]]

\* engine::evaluate(&mut env, &provider, query_node), provider over the
\* repositories as they are now
Evaluate(query_node, source) ==
    IF "!" \in SeqToSet(query_node) \/ source.kind = "Unreadable" THEN Err("evaluate")
    ELSE IF LowerChar(Head(query_node)) \in {"u", "s"} THEN Ok(Acknowledged)
    ELSE IF LowerChar(Head(query_node)) = "b"
         THEN Ok(SelectedGroups(ReverseRows(source.groups), source.hidden))
    ELSE Ok(source)

\* validate_git_repositories: a path that is no repository is skipped, the
\* result is always Ok
ValidateGitRepositories == Ok("repos")

\* a collaborator's result together with the calls made to obtain it
After(result, ran) ==
    IF result.ok THEN [ok |-> TRUE, value |-> result.value, ran |-> ran]
    ELSE [ok |-> FALSE, stage |-> result.stage, ran |-> ran]

\* a pipeline that evaluates the tokens even when the parser rejected them
RunQueryPastParseError(query, source) ==
    LET tokenizer_result == Tokenize(query) IN
    IF ~tokenizer_result.ok THEN After(tokenizer_result, <<"tokenize">>)
    ELSE IF tokenizer_result.value = <<>> THEN After(Err("empty tokens"), <<"tokenize">>)
    ELSE After(Evaluate(tokenizer_result.value, source),
               <<"tokenize", "parse", "evaluate">>)

\* tokenize, the empty-token check, parse, evaluate: mod.rs 72-114 and 240-282
\* `ran` lists the collaborators that were called, in the order of the calls
RunQuery(query, source) ==
    LET tokenizer_result == Tokenize(query) IN
    IF ~tokenizer_result.ok THEN After(tokenizer_result, <<"tokenize">>)
    ELSE IF tokenizer_result.value = <<>> THEN After(Err("empty tokens"), <<"tokenize">>)
    ELSE LET parser_result == ParseGql(tokenizer_result.value) IN
         IF ~parser_result.ok THEN After(parser_result, <<"tokenize", "parse">>)
         ELSE After(Evaluate(parser_result.value, source),
                    <<"tokenize", "parse", "evaluate">>)

-----------------------------------------------------------------------------
(* Responses.                                                              *)

\* an acknowledgment that reports no affected row
AckZeroRows == [kind |-> "Execution", tag |-> [name |-> "OK", rows |-> 0]]

\* Response::Execution(Tag::new("OK").with_rows(1))
Ack == [kind |-> "Execution", tag |-> [name |-> "OK", rows |-> 1]]

\* Response::Query(QueryResponse::new(fields_info, rows))
QueryResponse(fields_info, rows) == [kind |-> "Query", fields |-> fields_info, rows |-> rows]

\* DescribePortalResponse::new(fields_info)
DescribePortalResponse(fields_info) == [kind |-> "Describe", fields |-> fields_info]

\* Err(PgWireError::IoError(..)) returned at a stage
ErrorResponse(stage) == [kind |-> "Error", stage |-> stage]

\* the handler panicked: no response, the connection task ends
Panicked == [kind |-> "Panic"]

NoResponse == [kind |-> "None"]
NoObject == [none |-> TRUE]
NoEval == [none |-> TRUE]

Evaluated(query, result) == [none |-> FALSE, query |-> query, result |-> result]
Shown(obj) == [none |-> FALSE, obj |-> obj]

\* fields_info and encode_row over a projected object: mod.rs 136-150 and 183-197
SchemaAndRows(groups) ==
    LET fields_info == FieldsInfo(groups.titles) IN
    IF fields_info.panic THEN Panicked
    ELSE LET result == EncodeRow(groups, fields_info.value) IN
         IF result.panic THEN Panicked
         ELSE QueryResponse(fields_info.value, result.value)

-----------------------------------------------------------------------------
(* The handlers of GitQLBackend.                                           *)

Outcome(r, s, e) == [resp |-> r, shown |-> s, evald |-> e]

\* SimpleQueryHandler::do_query(query): mod.rs 43-154
SimpleDoQuery(text, source) ==
    LET git_repo_result == ValidateGitRepositories IN
    IF IsDeallocate(text) THEN Outcome(Ack, NoObject, NoEval)
    ELSE IF ~git_repo_result.ok THEN Outcome(ErrorResponse("repositories"), NoObject, NoEval)
    ELSE LET query == SplitFirst(text)
             evaluation_result == RunQuery(query, source)
             e == Evaluated(query, evaluation_result)
         IN IF ~evaluation_result.ok
            THEN Outcome(ErrorResponse(evaluation_result.stage), NoObject, e)
            ELSE LET engine_result == evaluation_result.value IN
                 IF engine_result.kind = "SelectedGroups"
                 THEN LET groups == Project(engine_result.groups, engine_result.hidden) IN
                      IF groups.panic THEN Outcome(Panicked, NoObject, e)
                      ELSE Outcome(SchemaAndRows(groups.value), Shown(groups.value), e)
                 ELSE Outcome(Ack, NoObject, e)

\* the key do_describe_portal inserts under: `query`, the statement up to
\* the first ';' (mod.rs 239 and 315)
DescribeKey(statement) == SplitFirst(statement)

\* the key do_query looks up: `query`, the portal's statement (mod.rs 175 and 181)
LookupKey(statement) == statement

\* HashMap::insert
Insert(map, key, value) ==
    [k \in DOMAIN map \cup {key} |-> IF k = key THEN value ELSE map[k]]

\* the cache after the Describe of a selection: mod.rs 314-315
CacheAfterDescribe(query_cache, statement, groups) ==
    Insert(query_cache, DescribeKey(statement), groups)

DescribeOutcome(r, c, s, e) == [resp |-> r, cache |-> c, shown |-> s, evald |-> e]

\* a do_describe_portal that empties the cache when a stage fails
DoDescribePortalForgetsOnError(statement, source, query_cache) ==
    IF IsSessionControl(statement)
    THEN DescribeOutcome(DescribePortalResponse(<<>>), query_cache, NoObject, NoEval)
    ELSE LET query == SplitFirst(statement)
             evaluation_result == RunQuery(query, source)
             e == Evaluated(query, evaluation_result)
         IN IF ~evaluation_result.ok
            THEN DescribeOutcome(ErrorResponse(evaluation_result.stage), <<>>, NoObject, e)
            ELSE LET engine_result == evaluation_result.value IN
                 IF engine_result.kind = "SelectedGroups"
                 THEN LET groups == Project(engine_result.groups, engine_result.hidden) IN
                      IF groups.panic THEN DescribeOutcome(Panicked, query_cache, NoObject, e)
                      ELSE LET fields_info == FieldsInfo(groups.value.titles) IN
                           IF fields_info.panic
                           THEN DescribeOutcome(Panicked, query_cache, NoObject, e)
                           ELSE DescribeOutcome(
                                  DescribePortalResponse(fields_info.value),
                                  CacheAfterDescribe(query_cache, statement, groups.value),
                                  Shown(groups.value), e)
                 ELSE DescribeOutcome(DescribePortalResponse(<<>>), query_cache, NoObject, e)

\* ExtendedQueryHandler::do_describe_portal(portal): mod.rs 221-321
DoDescribePortal(statement, source, query_cache) ==
    IF IsSessionControl(statement)
    THEN DescribeOutcome(DescribePortalResponse(<<>>), query_cache, NoObject, NoEval)
    ELSE LET query == SplitFirst(statement)
             evaluation_result == RunQuery(query, source)
             e == Evaluated(query, evaluation_result)
         IN IF ~evaluation_result.ok
            THEN DescribeOutcome(ErrorResponse(evaluation_result.stage), query_cache, NoObject, e)
            ELSE LET engine_result == evaluation_result.value IN
                 IF engine_result.kind = "SelectedGroups"
                 THEN LET groups == Project(engine_result.groups, engine_result.hidden) IN
                      IF groups.panic THEN DescribeOutcome(Panicked, query_cache, NoObject, e)
                      ELSE LET fields_info == FieldsInfo(groups.value.titles) IN
                           IF fields_info.panic
                           THEN DescribeOutcome(Panicked, query_cache, NoObject, e)
                           ELSE DescribeOutcome(
                                  DescribePortalResponse(fields_info.value),
                                  CacheAfterDescribe(query_cache, statement, groups.value),
                                  Shown(groups.value), e)
                 ELSE DescribeOutcome(DescribePortalResponse(<<>>), query_cache, NoObject, e)

\* ExtendedQueryHandler::do_describe_statement(stmt): mod.rs 203-219
DoDescribeStatement(statement) ==
    Outcome(ErrorResponse("describe statement"), NoObject, NoEval)

\* a do_query that runs the statement again instead of reading the cache
ExtendedDoQueryEvaluatesAgain(statement, query_cache) ==
    IF IsSessionControl(statement) THEN Outcome(Ack, NoObject, NoEval)
    ELSE SimpleDoQuery(statement, db)

\* ExtendedQueryHandler::do_query(portal): mod.rs 166-201
ExtendedDoQuery(statement, query_cache) ==
    IF IsSessionControl(statement) THEN Outcome(Ack, NoObject, NoEval)
    ELSE LET query == LookupKey(statement) IN
         IF query \in DOMAIN query_cache
         THEN LET groups == query_cache[query] IN
              Outcome(SchemaAndRows(groups), Shown(groups), NoEval)
         ELSE Outcome(Ack, NoObject, NoEval)

-----------------------------------------------------------------------------
(* Parameter substitution: make_qeury and get_param of parameter.rs.  A    *)
(* portal carries the statement text, the declared parameter types and the *)
(* bound parameter values (None is the SQL null).                          *)

Some(v) == [some |-> TRUE, value |-> v]
None == [some |-> FALSE]

Digits == {"0", "1", "2", "3", "4", "5", "6", "7", "8", "9"}

DigitValue(c) ==
    CASE c = "0" -> 0 [] c = "1" -> 1 [] c = "2" -> 2 [] c = "3" -> 3 [] c = "4" -> 4
      [] c = "5" -> 5 [] c = "6" -> 6 [] c = "7" -> 7 [] c = "8" -> 8 [] c = "9" -> 9

RECURSIVE DecimalValue(_)
DecimalValue(chars) ==
    IF chars = <<>> THEN 0
    ELSE 10 * DecimalValue(SubSeq(chars, 1, Len(chars) - 1)) + DigitValue(chars[Len(chars)])

\* str::parse::<usize>: decimal digits after an optional '+'
ParseUsize(chars) ==
    LET digits == IF chars # <<>> /\ Head(chars) = "+" THEN Tail(chars) ELSE chars IN
    IF digits = <<>> \/ \E i \in 1..Len(digits) : digits[i] \notin Digits
    THEN Err("parse usize")
    ELSE Ok(DecimalValue(digits))

\* str::split(' '): the pieces between the separators, empty ones included
RECURSIVE Split(_, _)
Split(s, sep) ==
    IF sep \notin SeqToSet(s) THEN <<s>>
    ELSE LET i == CHOOSE i \in 1..Len(s) : s[i] = sep /\ \A j \in 1..(i - 1) : s[j] # sep
         IN <<SubSeq(s, 1, i - 1)>> \o Split(SubSeq(s, i + 1, Len(s)), sep)

\* get_param(portal, i), i counted from 0: both unwraps panic, the first when
\* no type is declared at i, the second when no value is bound at i
GetParam(portal, i) ==
    IF i >= Len(portal.parameter_types) THEN Panic
    ELSE IF i >= Len(portal.parameters) THEN Panic
    ELSE Done(portal.parameters[i + 1])

\* the loop of make_qeury over the tokens from the k-th on
RECURSIVE MakeQeuryFrom(_, _, _, _)
MakeQeuryFrom(portal, tokens, k, result_query) ==
    IF k > Len(tokens) THEN Done(result_query)
    ELSE LET token == tokens[k] IN
         IF token = <<>> THEN MakeQeuryFrom(portal, tokens, k + 1, result_query)
         ELSE IF Head(token) = "$"
         THEN LET i == ParseUsize(Tail(token)) IN
              IF ~i.ok THEN Panic
              \* `*i - 1` at 0: the debug build panics at the subtraction, the
              \* release build wraps and panics in get_param
              ELSE IF i.value = 0 THEN Panic
              ELSE LET param == GetParam(portal, i.value - 1) IN
                   IF param.panic THEN Panic
                   ELSE MakeQeuryFrom(portal, tokens, k + 1,
                          result_query
                            \o (IF param.value.some THEN param.value.value ELSE <<>>)
                            \o <<" ">>)
         ELSE MakeQeuryFrom(portal, tokens, k + 1, result_query \o token \o <<" ">>)

\* make_qeury(portal): parameter.rs 3-25
MakeQeury(portal) == MakeQeuryFrom(portal, Split(portal.statement, " "), 1, <<>>)

-----------------------------------------------------------------------------
(* The session: one connection, its handler and its cache.                 *)

\* statement texts a client sends
StmtA == <<"a">>
StmtAB == <<"a", ";", "b">>
StmtB == <<"b">>
StmtU == <<"u">>
StmtSet == <<"s", "e", "t">>
StmtSetUpper == <<"S", "E", "T", " ", "a">>
StmtTokenizeError == <<"#">>
StmtEmpty == <<" ">>
StmtParseError == <<"?">>
StmtEvaluateError == <<"a", "!">>
StmtDeallocate == <<"d", "e", "a", "l", "l", "o", "c", "a", "t", "e">>
StmtATail == <<"a", ";", "#">>

PortalStmts ==
    {StmtA, StmtAB, StmtB, StmtU, StmtSet, StmtSetUpper, StmtTokenizeError,
     StmtEmpty, StmtParseError, StmtEvaluateError}

SimpleStmts == PortalStmts \cup {StmtDeallocate, StmtATail}

\* repositories the engine fails to read
Unreadable == [kind |-> "Unreadable", groups |-> MakeObject(<<>>, <<>>), hidden |-> {}]

\* the contents the data source takes in the session; one selects under an
\* alias, a title with no schema entry
Snapshots ==
    {SelectedGroups(MakeObject(<<"name">>, <<>>), {}),
     SelectedGroups(MakeObject(<<"name", "size">>, <<2>>), {}),
     SelectedGroups(MakeObject(<<"name", "size">>, <<1, 1>>), {"size"}),
     SelectedGroups(MakeObject(<<"name", "any">>, <<1>>), {}),
     SelectedGroups(MakeObject(<<"name", "any">>, <<0>>), {}),
     SelectedGroups(MakeObject(<<"alias">>, <<1>>), {}),
     Unreadable}

NoWatch == <<"-">>
\* no second connection was accepted
NoPeer == [connected |-> FALSE]
\* no request is followed step by step
NoLife == [stage |-> "None"]
\* no request is in progress beside the one being answered
NoTasks == [lock |-> 0, poisoned |-> FALSE, task |-> <<>>]
NoInput == [kind |-> "none"]
NoOutput == [none |-> TRUE]

\* MakeGitQLBackend::make: a handler with an empty cache (mod.rs 353-359)
InitHandler ==
    /\ cache = <<>>
    /\ alive = TRUE
    /\ req = [kind |-> "None", text |-> <<>>]
    /\ resp = NoResponse
    /\ shown = NoObject
    /\ evald = NoEval
    /\ repeats = 0
    /\ watched = FALSE
    /\ conc = NoTasks
    /\ life = NoLife
    /\ peer = NoPeer

Init ==
    /\ db \in Snapshots
    /\ InitHandler
    /\ watch = NoWatch
    /\ pin = NoInput
    /\ pout = NoOutput

Min(a, b) == IF a < b THEN a ELSE b

Request(kind, text) == [kind |-> kind, text |-> text]

\* the bookkeeping every request does
Answer(kind, text, out) ==
    /\ alive
    /\ req' = Request(kind, text)
    /\ resp' = out.resp
    /\ shown' = out.shown
    /\ evald' = out.evald
    /\ alive' = (out.resp.kind # "Panic")
    /\ repeats' = IF req = Request(kind, text) THEN Min(repeats + 1, MaxRepeats) ELSE 1
    /\ UNCHANGED <<db, watch, pin, pout, conc, life, peer>>

\* the repositories change under the server
Mutate ==
    /\ alive
    /\ db' \in Snapshots \ {db}
    /\ UNCHANGED <<cache, alive, req, resp, shown, evald, repeats, watch, watched,
                   pin, pout, conc, life, peer>>

\* a simple query arrives and do_query answers it
SimpleQuery(text) ==
    /\ Answer("Simple", text, SimpleDoQuery(text, db))
    /\ UNCHANGED <<cache, watched>>

\* a portal Describe arrives and do_describe_portal answers it
DescribePortal(text) ==
    /\ LET out == DoDescribePortal(text, db, cache) IN
        /\ Answer("Describe", text, out)
        /\ cache' = out.cache
    /\ watched' = (watched \/ text = watch)

\* an Execute that removes the entry it has read
ExecuteRemovesEntry(text) ==
    /\ Answer("Execute", text, ExtendedDoQuery(text, cache))
    /\ cache' = [k \in DOMAIN cache \ {LookupKey(text)} |-> cache[k]]
    /\ UNCHANGED watched

\* an Execute arrives and the extended do_query answers it
Execute(text) ==
    /\ Answer("Execute", text, ExtendedDoQuery(text, cache))
    /\ UNCHANGED <<cache, watched>>

Next ==
    \/ Mutate
    \/ \E text \in SimpleStmts : SimpleQuery(text)
    \/ \E text \in PortalStmts : DescribePortal(text)
    \/ \E text \in PortalStmts : Execute(text)

Spec == Init /\ [][Next]_vars

-----------------------------------------------------------------------------
(* The functions on every input within the bounds: the handlers over every *)
(* selected-groups result (one statement, a data source that stays as it   *)
(* is), and encode_column over every column of the schema.                 *)

ColumnInputs ==
    {[kind |-> "column", string |-> t, index |-> i] :
        t \in SchemaTitles, i \in 0..(MaxTitles - 1)}

\* gitql_ast::value::Value: the variants encode_row names and the two others
ValueVariants == EncodedVariants \cup {"Undefined", "Null"}

\* a GitQLObject of one group whose rows hold values of the given variants
TypedObject(variants, rows) ==
    [titles |-> [i \in 1..Len(variants) |-> "name"],
     groups |-> << [rows |-> [r \in 1..rows |->
                     [values |-> [i \in 1..Len(variants) |->
                         [variant |-> variants[i], data |-> <<i, r>>]]]]] >>]

AnyField == [name |-> "name", datatype |-> "TEXT", format |-> "Text"]

\* rows of every variant with as many field descriptors as values, one
\* fewer or one more
RowInputs ==
    {[kind |-> "rows", groups |-> TypedObject(v, r), fields_info |-> [i \in 1..n |-> AnyField]] :
        v \in UNION {[1..w -> ValueVariants] : w \in 0..MaxWidth},
        r \in 0..MaxRows,
        n \in 0..(MaxWidth + 1)}

InitFn ==
    /\ InitHandler
    /\ watch = NoWatch
    /\ pout = NoOutput
    /\ \/ db \in AllSelections /\ pin = NoInput
       \/ db = SelectedGroups(MakeObject(<<>>, <<>>), {}) /\ pin \in ColumnInputs
       \/ db = SelectedGroups(MakeObject(<<>>, <<>>), {}) /\ pin \in RowInputs

\* encode_column is applied to the input
DescribeColumn ==
    /\ pin.kind = "column"
    /\ pout = NoOutput
    /\ pout' = EncodeColumn(pin.string, pin.index)
    /\ UNCHANGED <<db, cache, alive, req, resp, shown, evald, repeats, watch,
                   watched, pin, conc, life, peer>>

\* encode_row is applied to the input
EncodeRows ==
    /\ pin.kind = "rows"
    /\ pout = NoOutput
    /\ pout' = EncodeRow(pin.groups, pin.fields_info)
    /\ UNCHANGED <<db, cache, alive, req, resp, shown, evald, repeats, watch,
                   watched, pin, conc, life, peer>>

NextFn ==
    \/ pin = NoInput /\ SimpleQuery(StmtA)
    \/ pin = NoInput /\ DescribePortal(StmtA)
    \/ pin = NoInput /\ Execute(StmtA)
    \/ DescribeColumn
    \/ EncodeRows

SpecFn == InitFn /\ [][NextFn]_vars

-----------------------------------------------------------------------------
(* The session that watches one statement text: which text a portal        *)
(* Describe was never issued for is part of the state.                     *)

InitWatch ==
    /\ db \in Snapshots
    /\ InitHandler
    /\ watch \in PortalStmts
    /\ pin = NoInput
    /\ pout = NoOutput

NextWatch ==
    \/ Mutate
    \/ \E text \in PortalStmts : DescribePortal(text)
    \/ \E text \in PortalStmts : Execute(text)

SpecWatch == InitWatch /\ [][NextWatch]_vars

-----------------------------------------------------------------------------
(* Portals with placeholders: make_qeury over every portal within the      *)
(* bounds, and the portal Describe of the same statement.                  *)

SeqsUpTo(S, n) == UNION {[1..k -> S] : k \in 0..n}

ParamStmts ==
    {<<"a">>,
     <<"a", " ", "$", "1">>,
     <<"$", "1", " ", "$", "2">>,
     <<"a", " ", " ", "$", "1">>,
     <<"a", " ", "$", "0">>,
     <<"a", " ", "$", "3">>,
     <<"a", " ", "$", "1", ";">>,
     <<"a", "=", "$", "1">>,
     <<"a", " ", "$", "+", "1">>,
     <<"$">>}

ParamValues == {Some(<<"x">>), Some(<<"y">>), None}

PortalInputs ==
    {[kind |-> "portal", statement |-> st, parameter_types |-> ty, parameters |-> pa] :
        st \in ParamStmts,
        ty \in SeqsUpTo({"TEXT"}, MaxParams),
        pa \in SeqsUpTo(ParamValues, MaxParams)}

InitParam ==
    /\ InitHandler
    /\ db = SelectedGroups(MakeObject(<<"name", "size">>, <<2>>), {})
    /\ watch = NoWatch
    /\ pin \in PortalInputs
    /\ pout = NoOutput

\* make_qeury is applied to the portal
Substitute ==
    /\ pin.kind = "portal"
    /\ pout = NoOutput
    /\ pout' = MakeQeury(pin)
    /\ UNCHANGED <<db, cache, alive, req, resp, shown, evald, repeats, watch,
                   watched, pin, conc, life, peer>>

NextParam ==
    \/ Substitute
    \/ pin.kind = "portal" /\ DescribePortal(pin.statement)

SpecParam == InitParam /\ [][NextParam]_vars

-----------------------------------------------------------------------------
(* Requests running at once on one cache.  query_cache is an               *)
(* Arc<Mutex<HashMap>>: do_describe_portal locks it at mod.rs 314 and      *)
(* inserts at 315, the extended do_query locks it at mod.rs 180, reads at  *)
(* 181 and encodes the rows with the guard held; a guard is dropped when   *)
(* its handler returns or panics, and a panic with the guard held poisons  *)
(* the Mutex, so that every later lock().unwrap() panics.  HashMap::insert *)
(* is no single step: between its first and its last write the entry is    *)
(* torn.                                                                   *)

Tasks == 1..MaxTasks

Torn == [torn |-> TRUE]

IdleTask == [pc |-> "idle", text |-> <<>>, entry |-> NoObject, seen |-> NoObject]
DeadTask == [pc |-> "dead", text |-> <<>>, entry |-> NoObject, seen |-> NoObject]

LockStmts == {StmtA, StmtAB}

LockSnapshots ==
    {SelectedGroups(MakeObject(<<"name">>, <<>>), {}),
     SelectedGroups(MakeObject(<<"name", "size">>, <<2>>), {}),
     SelectedGroups(MakeObject(<<"name", "size">>, <<1, 1>>), {"size"})}

Others == <<alive, req, resp, shown, evald, repeats, watch, watched, pin, pout, life,
            peer>>

InitLock ==
    /\ db \in LockSnapshots
    /\ cache = <<>>
    /\ alive = TRUE
    /\ req = [kind |-> "None", text |-> <<>>]
    /\ resp = NoResponse
    /\ shown = NoObject
    /\ evald = NoEval
    /\ repeats = 0
    /\ watched = FALSE
    /\ watch = NoWatch
    /\ pin = NoInput
    /\ pout = NoOutput
    /\ conc = [lock |-> 0, poisoned |-> FALSE, task |-> [t \in Tasks |-> IdleTask]]
    /\ life = NoLife
    /\ peer = NoPeer

\* the repositories change while requests run
Change ==
    /\ db' \in LockSnapshots \ {db}
    /\ UNCHANGED <<cache, conc>>
    /\ UNCHANGED Others

\* do_describe_portal up to the lock: mod.rs 221-312
StartDescribe(t, text) ==
    /\ conc.task[t].pc = "idle"
    /\ LET out == DoDescribePortal(text, db, <<>>) IN
        /\ out.resp.kind \in {"Describe", "Panic"}
        /\ conc' = [conc EXCEPT !.task[t] =
                      IF out.resp.kind = "Panic" THEN DeadTask
                      ELSE [pc |-> "describe lock", text |-> text,
                            entry |-> out.shown, seen |-> NoObject]]
    /\ UNCHANGED <<db, cache>>
    /\ UNCHANGED Others

\* self.query_cache.lock().unwrap(): mod.rs 314
LockDescribe(t) ==
    /\ conc.task[t].pc = "describe lock"
    /\ conc.lock = 0
    /\ conc' = IF conc.poisoned THEN [conc EXCEPT !.task[t] = DeadTask]
               ELSE [conc EXCEPT !.lock = t, !.task[t].pc = "insert"]
    /\ UNCHANGED <<db, cache>>
    /\ UNCHANGED Others

\* locked_cache.insert(query.to_string(), groups) begins: mod.rs 315
InsertBegins(t) ==
    /\ conc.task[t].pc = "insert"
    /\ cache' = Insert(cache, DescribeKey(conc.task[t].text), Torn)
    /\ conc' = [conc EXCEPT !.task[t].pc = "inserting"]
    /\ UNCHANGED db
    /\ UNCHANGED Others

\* the insert is complete, the handler returns and the guard is dropped:
\* mod.rs 315-318
InsertEnds(t) ==
    /\ conc.task[t].pc = "inserting"
    /\ cache' = CacheAfterDescribe(cache, conc.task[t].text, conc.task[t].entry.obj)
    /\ conc' = [conc EXCEPT !.lock = 0, !.task[t] = IdleTask]
    /\ UNCHANGED db
    /\ UNCHANGED Others

\* the extended do_query up to the lock: mod.rs 166-178
StartExecute(t, text) ==
    /\ conc.task[t].pc = "idle"
    /\ ~IsSessionControl(text)
    /\ conc' = [conc EXCEPT !.task[t] =
                  [pc |-> "execute lock", text |-> text,
                   entry |-> NoObject, seen |-> NoObject]]
    /\ UNCHANGED <<db, cache>>
    /\ UNCHANGED Others

\* a lock() that does not wait for the guard of another task
LockExecuteNoWait(t) ==
    /\ conc.task[t].pc = "execute lock"
    /\ conc' = [conc EXCEPT !.lock = t, !.task[t].pc = "get"]
    /\ UNCHANGED <<db, cache>>
    /\ UNCHANGED Others

\* self.query_cache.lock().unwrap(): mod.rs 180
LockExecute(t) ==
    /\ conc.task[t].pc = "execute lock"
    /\ conc.lock = 0
    /\ conc' = IF conc.poisoned THEN [conc EXCEPT !.task[t] = DeadTask]
               ELSE [conc EXCEPT !.lock = t, !.task[t].pc = "get"]
    /\ UNCHANGED <<db, cache>>
    /\ UNCHANGED Others

\* locked_cache.get(query): mod.rs 181
Get(t) ==
    /\ conc.task[t].pc = "get"
    /\ LET query == LookupKey(conc.task[t].text) IN
       conc' = [conc EXCEPT !.task[t].pc = "encode",
                            !.task[t].seen = IF query \in DOMAIN cache
                                             THEN Shown(cache[query]) ELSE NoObject]
    /\ UNCHANGED <<db, cache>>
    /\ UNCHANGED Others

\* the response is built with the guard held and the handler returns, or
\* encode_row panics and the guard is dropped in the unwinding: mod.rs 182-200
ReturnExecute(t) ==
    /\ conc.task[t].pc = "encode"
    /\ LET seen == conc.task[t].seen
           panics == ~seen.none /\ (seen.obj = Torn \/ SchemaAndRows(seen.obj).kind = "Panic")
       IN conc' = [conc EXCEPT !.lock = 0,
                               !.poisoned = conc.poisoned \/ panics,
                               !.task[t] = IF panics THEN DeadTask ELSE IdleTask]
    /\ UNCHANGED <<db, cache>>
    /\ UNCHANGED Others

NextLock ==
    \/ Change
    \/ \E t \in Tasks, text \in LockStmts : StartDescribe(t, text)
    \/ \E t \in Tasks : LockDescribe(t)
    \/ \E t \in Tasks : InsertBegins(t)
    \/ \E t \in Tasks : InsertEnds(t)
    \/ \E t \in Tasks, text \in LockStmts : StartExecute(t, text)
    \/ \E t \in Tasks : LockExecute(t)
    \/ \E t \in Tasks : Get(t)
    \/ \E t \in Tasks : ReturnExecute(t)

SpecLock == InitLock /\ [][NextLock]_vars

-----------------------------------------------------------------------------
(* One simple query followed step by step through do_query (mod.rs 43-154), *)
(* the repositories changing under it.  `life` holds the stage the request *)
(* has reached and what the handler holds at that stage.                   *)

Life(stage, text, data) == [stage |-> stage, text |-> text, data |-> data]

Held == <<cache, req, shown, evald, repeats, watch, watched, pin, pout, conc, peer>>

InitLife ==
    /\ db \in Snapshots
    /\ cache = <<>>
    /\ alive = TRUE
    /\ req = [kind |-> "None", text |-> <<>>]
    /\ resp = NoResponse
    /\ shown = NoObject
    /\ evald = NoEval
    /\ repeats = 0
    /\ watched = FALSE
    /\ watch = NoWatch
    /\ pin = NoInput
    /\ pout = NoOutput
    /\ conc = NoTasks
    /\ peer = NoPeer
    /\ \E text \in SimpleStmts : life = Life("Received", text, <<>>)

\* the DEALLOCATE check answers at once: mod.rs 52-54
Deallocates ==
    /\ life.stage = "Received"
    /\ IsDeallocate(life.text)
    /\ life' = Life("Done", life.text, <<>>)
    /\ resp' = Ack
    /\ UNCHANGED <<db, alive>>
    /\ UNCHANGED Held

\* tokenizer::tokenize of the text before the first ';': mod.rs 70-79
Tokenizes ==
    /\ life.stage = "Received"
    /\ ~IsDeallocate(life.text)
    /\ ValidateGitRepositories.ok
    /\ LET tokenizer_result == Tokenize(SplitFirst(life.text)) IN
        IF tokenizer_result.ok
        THEN /\ life' = Life("Tokenized", life.text, tokenizer_result.value)
             /\ UNCHANGED resp
        ELSE /\ life' = Life("Error", life.text, <<>>)
             /\ resp' = ErrorResponse(tokenizer_result.stage)
    /\ UNCHANGED <<db, alive>>
    /\ UNCHANGED Held

\* the empty-token check and parser::parse_gql: mod.rs 81-100
Parses ==
    /\ life.stage = "Tokenized"
    /\ IF life.data = <<>>
       THEN /\ life' = Life("Error", life.text, <<>>)
            /\ resp' = ErrorResponse("empty tokens")
       ELSE LET parser_result == ParseGql(life.data) IN
            IF parser_result.ok
            THEN /\ life' = Life("Parsed", life.text, parser_result.value)
                 /\ UNCHANGED resp
            ELSE /\ life' = Life("Error", life.text, <<>>)
                 /\ resp' = ErrorResponse(parser_result.stage)
    /\ UNCHANGED <<db, alive>>
    /\ UNCHANGED Held

\* engine::evaluate over the repositories as they are now: mod.rs 104-113
Evaluates ==
    /\ life.stage = "Parsed"
    /\ LET evaluation_result == Evaluate(life.data, db) IN
        IF evaluation_result.ok
        THEN /\ life' = Life("Evaluated", life.text, evaluation_result.value)
             /\ UNCHANGED resp
        ELSE /\ life' = Life("Error", life.text, <<>>)
             /\ resp' = ErrorResponse(evaluation_result.stage)
    /\ UNCHANGED <<db, alive>>
    /\ UNCHANGED Held

\* the projection of a selected-groups result, or its panic: mod.rs 116-134
Projects ==
    /\ life.stage = "Evaluated"
    /\ life.data.kind = "SelectedGroups"
    /\ LET groups == Project(life.data.groups, life.data.hidden) IN
        IF groups.panic
        THEN /\ life' = Life("Panicked", life.text, <<>>)
             /\ resp' = Panicked
             /\ alive' = FALSE
        ELSE /\ life' = Life("Projected", life.text, groups.value)
             /\ UNCHANGED <<resp, alive>>
    /\ UNCHANGED db
    /\ UNCHANGED Held

\* any other engine result is acknowledged: mod.rs 116, 153
Acknowledges ==
    /\ life.stage = "Evaluated"
    /\ life.data.kind # "SelectedGroups"
    /\ life' = Life("Done", life.text, <<>>)
    /\ resp' = Ack
    /\ UNCHANGED <<db, alive>>
    /\ UNCHANGED Held

\* the field descriptors and the encoded rows, or their panic: mod.rs 136-147
Streams ==
    /\ life.stage = "Projected"
    /\ LET response == SchemaAndRows(life.data) IN
        IF response.kind = "Panic"
        THEN /\ life' = Life("Panicked", life.text, <<>>)
             /\ resp' = Panicked
             /\ alive' = FALSE
        ELSE /\ life' = Life("Streaming", life.text, response)
             /\ UNCHANGED <<resp, alive>>
    /\ UNCHANGED db
    /\ UNCHANGED Held

\* the query response is returned: mod.rs 148-150
Completes ==
    /\ life.stage = "Streaming"
    /\ life' = Life("Done", life.text, <<>>)
    /\ resp' = life.data
    /\ UNCHANGED <<db, alive>>
    /\ UNCHANGED Held

NextLife ==
    \/ Mutate
    \/ Deallocates
    \/ Tokenizes
    \/ Parses
    \/ Evaluates
    \/ Projects
    \/ Acknowledges
    \/ Streams
    \/ Completes

SpecLife == InitLife /\ [][NextLife]_vars

-----------------------------------------------------------------------------
(* Two connections.  main accepts a socket and calls make() for it, which  *)
(* builds a GitQLBackend with a new, empty query_cache (mod.rs 350-360).   *)
(* The first connection is the session of the variables above, `peer` is   *)
(* the handler of the second one; both read the same repositories.         *)

Peer(query_cache, open, request, response) ==
    [connected |-> TRUE, cache |-> query_cache, alive |-> open,
     req |-> request, resp |-> response]

InitConn ==
    /\ db \in LockSnapshots
    /\ InitHandler
    /\ watch \in LockStmts
    /\ pin = NoInput
    /\ pout = NoOutput

Own == <<cache, alive, req, resp, shown, evald, repeats, watch, watched, pin, pout,
         conc, life>>

\* the repositories change under both connections
ChangeUnderBoth ==
    /\ db' \in LockSnapshots \ {db}
    /\ UNCHANGED peer
    /\ UNCHANGED Own

\* MakeGitQLBackend::make for the second socket: mod.rs 353-359
PeerConnects ==
    /\ ~peer.connected
    /\ peer' = Peer(<<>>, TRUE, [kind |-> "None", text |-> <<>>], NoResponse)
    /\ UNCHANGED db
    /\ UNCHANGED Own

\* do_describe_portal on the second connection
PeerDescribe(text) ==
    /\ peer.connected
    /\ peer.alive
    /\ LET out == DoDescribePortal(text, db, peer.cache) IN
       peer' = Peer(out.cache, out.resp.kind # "Panic", Request("Describe", text), out.resp)
    /\ UNCHANGED db
    /\ UNCHANGED Own

\* the extended do_query on the second connection
PeerExecute(text) ==
    /\ peer.connected
    /\ peer.alive
    /\ LET out == ExtendedDoQuery(text, peer.cache) IN
       peer' = Peer(peer.cache, out.resp.kind # "Panic", Request("Execute", text), out.resp)
    /\ UNCHANGED db
    /\ UNCHANGED Own

NextConn ==
    \/ ChangeUnderBoth
    \/ PeerConnects
    \/ \E text \in LockStmts : DescribePortal(text)
    \/ \E text \in LockStmts : Execute(text)
    \/ \E text \in LockStmts : PeerDescribe(text)
    \/ \E text \in LockStmts : PeerExecute(text)

SpecConn == InitConn /\ [][NextConn]_vars

-----------------------------------------------------------------------------
(* The session with statement-level Describes.  The one text a portal      *)
(* Describe is issued for is the watched one, so `watched` tells whether   *)
(* any portal Describe was made.                                           *)

InitStmt ==
    /\ db \in Snapshots
    /\ InitHandler
    /\ watch = StmtA
    /\ pin = NoInput
    /\ pout = NoOutput

\* a statement Describe that does what the portal Describe does
DescribeStatementAsPortal(text) ==
    /\ LET out == DoDescribePortal(text, db, cache) IN
        /\ Answer("DescribeStatement", text, out)
        /\ cache' = out.cache
    /\ UNCHANGED watched

\* a statement Describe arrives and do_describe_statement answers it
DescribeStatement(text) ==
    /\ Answer("DescribeStatement", text, DoDescribeStatement(text))
    /\ UNCHANGED <<cache, watched>>

NextStmt ==
    \/ Mutate
    \/ \E text \in PortalStmts : DescribeStatement(text)
    \/ DescribePortal(StmtA)
    \/ \E text \in PortalStmts : Execute(text)

SpecStmt == InitStmt /\ [][NextStmt]_vars

-----------------------------------------------------------------------------
(* Describe/Execute consistency.                                           *)

IsSelection(e) == ~e.none /\ e.result.ok /\ e.result.value.kind = "SelectedGroups"
IsAcknowledged(e) == ~e.none /\ e.result.ok /\ e.result.value.kind = "Acknowledged"

\* the rows a response shows for a projected object
RowsOf(obj) == IF obj.groups = <<>> THEN <<>> ELSE obj.groups[1].rows

\* C1: an Execute of S that directly follows an Execute of S (the data source
\* may have changed in between, no other request was made) returns the
\* response the first one returned: the same field descriptors, the same rows.
C1_ExecuteTwiceSame ==
    [][\A S \in PortalStmts :
          (req = Request("Execute", S) /\ Execute(S)) => resp' = resp]_vars

\* C1 witness: a Describe of "a" stored rows, the data source has changed
\* since, and "a" has been executed twice in a row with a row-bearing response.
C1_Witness ==
    /\ req = Request("Execute", StmtA)
    /\ repeats >= 2
    /\ resp.kind = "Query"
    /\ resp.rows # <<>>
    /\ StmtA \in DOMAIN cache
    /\ Project(db.groups, db.hidden) # Done(cache[StmtA])

\* the rows of a projected object as encode_row sends them
EncodedRows(obj) == [r \in 1..Len(RowsOf(obj)) |->
                        [i \in 1..Len(RowsOf(obj)[r].values) |->
                            EncodeValue(RowsOf(obj)[r].values[i])]]

\* C2: when a portal Describe of S evaluated to selected groups and answered
\* with field descriptors, the Execute of S that follows it answers with a
\* query response that has those descriptors and the rows of the object that
\* Describe projected, not with an acknowledgment (stated for the objects
\* whose rows encode_row can encode).
C2_ExecuteReturnsDescribed ==
    [][\A S \in PortalStmts :
          (/\ req = Request("Describe", S)
           /\ resp.kind = "Describe"
           /\ IsSelection(evald)
           /\ SchemaAndRows(shown.obj).kind = "Query"
           /\ Execute(S))
          => resp' = QueryResponse(resp.fields, EncodedRows(shown.obj))]_vars

\* C3: after a portal Describe that projected an object, the cache holds that
\* object under the full statement text of the portal, the key Execute looks up.
C3_KeyIsStatementText ==
    (req.kind = "Describe" /\ ~shown.none)
        => (req.text \in DOMAIN cache /\ cache[req.text] = shown.obj)


\* C4: an Execute of a statement text for which no portal Describe was ever
\* issued in the session returns the acknowledgment (tag OK, no field
\* descriptors, no rows) whenever the handler returns, whatever the text is.
C4_NeverDescribedAcknowledged ==
    [][\A S \in PortalStmts :
          (watch = S /\ ~watched /\ Execute(S) /\ alive')
          => resp' = [kind |-> "Execution", tag |-> [name |-> "OK", rows |-> 1]]]_vars

-----------------------------------------------------------------------------
(* Statements that select nothing.                                         *)

\* C10: when the engine result is not selected groups, the simple query is
\* answered by one Execution response with tag OK and row count 1 (no field
\* descriptors, no rows), and a portal Describe of the statement is answered
\* with zero field descriptors and leaves the cache as it was.
C10_AcknowledgedHasNoSchema ==
    [][\A S \in SimpleStmts :
          /\ (SimpleQuery(S) /\ IsAcknowledged(evald'))
                => resp' = [kind |-> "Execution", tag |-> [name |-> "OK", rows |-> 1]]
          /\ (DescribePortal(S) /\ IsAcknowledged(evald'))
                => (/\ resp' = [kind |-> "Describe", fields |-> <<>>]
                    /\ shown'.none
                    /\ cache' = cache)]_vars

\* C10 witness: a Describe of a statement that selects nothing was answered
\* with an empty schema while the cache holds an entry of an earlier Describe.
C10_Witness ==
    /\ req = Request("Describe", StmtU)
    /\ IsAcknowledged(evald)
    /\ resp = [kind |-> "Describe", fields |-> <<>>]
    /\ DOMAIN cache = {StmtA}


-----------------------------------------------------------------------------
(* Projection: hidden columns and groups.                                  *)

\* the titles of T that are not in H, in the order of T
RECURSIVE KeepVisible(_, _)
KeepVisible(T, H) ==
    IF T = <<>> THEN <<>>
    ELSE (IF Head(T) \in H THEN <<>> ELSE <<Head(T)>>) \o KeepVisible(Tail(T), H)

\* the request projected a selected-groups result
Projected == req.kind \in {"Simple", "Describe"} /\ IsSelection(evald) /\ ~shown.none

\* C5: the projected titles are the engine's titles T without those of the
\* hidden set H, in the order of T, len(T) - |H /\ T| of them; every projected
\* row holds, for one row of the engine result, exactly the values of the
\* kept columns in that order, one value per visible title.
C5_HiddenColumnsRemoved ==
    Projected =>
        LET T == evald.result.value.groups.titles
            H == evald.result.value.hidden
            P == shown.obj
        IN /\ P.titles = KeepVisible(T, H)
           /\ Len(P.titles) = Len(T) - Cardinality(H \cap SeqToSet(T))
           /\ \A k \in 1..Len(RowsOf(P)) :
                \E g \in 1..MaxGroups + 1, r \in 1..MaxRows + 1 :
                    RowsOf(P)[k].values =
                        [i \in 1..Len(P.titles) |-> Cell(P.titles[i], g, r)]

\* C5 witness: two of three titles were hidden, the kept one comes last, and
\* the response shows two or more rows.
C5_Witness ==
    /\ Projected
    /\ resp.kind = "Query"
    /\ Len(evald.result.value.groups.titles) = 3
    /\ Len(shown.obj.titles) = 1
    /\ shown.obj.titles[1] = evald.result.value.groups.titles[3]
    /\ Len(resp.rows) >= 2

\* the cells <<g, r>> of an engine result, group after group, row after row
RECURSIVE CellsInOrder(_, _)
CellsInOrder(groups, g) ==
    IF g > Len(groups) THEN <<>>
    ELSE [r \in 1..Len(groups[g].rows) |-> <<g, r>>] \o CellsInOrder(groups, g + 1)

\* the cell <<g, r>> a projected row was made from
CellOf(row) == <<row.values[1].data[2], row.values[1].data[3]>>

\* C6: the projected rows are the rows of the engine's groups in group order
\* and, within a group, in row order: the concatenation when there are
\* several groups, the rows of the group when there is one.
C6_FlatteningKeepsOrder ==
    Projected =>
        LET raw == evald.result.value.groups
            P == shown.obj
        IN /\ Len(RowsOf(P)) = Len(CellsInOrder(raw.groups, 1))
           /\ P.titles # <<>> =>
                [k \in 1..Len(RowsOf(P)) |-> CellOf(RowsOf(P)[k])]
                    = CellsInOrder(raw.groups, 1)

\* C6 witness: two groups of two rows were answered with four rows.
C6_Witness ==
    /\ Projected
    /\ resp.kind = "Query"
    /\ Len(evald.result.value.groups.groups) = 2
    /\ \A g \in 1..2 : Len(evald.result.value.groups.groups[g].rows) = 2
    /\ Len(resp.rows) = 4

-----------------------------------------------------------------------------
(* Schema: field descriptors.                                              *)

\* C7: a response that carries a schema has one field descriptor per visible
\* title, in the order of the titles, and every row of a query response has
\* as many values as there are descriptors.
C7_OneDescriptorPerTitle ==
    (resp.kind \in {"Query", "Describe"} /\ ~shown.none) =>
        /\ Len(resp.fields) = Len(shown.obj.titles)
        /\ \A i \in 1..Len(resp.fields) : resp.fields[i].name = shown.obj.titles[i]
        /\ resp.kind = "Query" =>
              \A r \in 1..Len(resp.rows) : Len(resp.rows[r]) = Len(resp.fields)

\* the type of a visible column cannot be resolved
Unresolved(title) ==
    title \in DOMAIN TABLES_FIELDS_TYPES /\ TABLES_FIELDS_TYPES[title] \notin SupportedTypes

\* the titles of T whose type resolves, in the order of T
RECURSIVE KeepResolved(_)
KeepResolved(T) ==
    IF T = <<>> THEN <<>>
    ELSE (IF Unresolved(Head(T)) THEN <<>> ELSE <<Head(T)>>) \o KeepResolved(Tail(T))

\* C8: when the type of exactly one visible column of a selected-groups
\* result cannot be resolved (the result has a group, every title is in the
\* schema), the simple query is still answered with a query response, whose
\* descriptors are those of the other columns and whose rows hold the values
\* of the other columns only.
C8_UnresolvedColumnDropped ==
    (/\ req.kind = "Simple"
     /\ IsSelection(evald)
     /\ evald.result.value.groups.groups # <<>>
     /\ LET V == KeepVisible(evald.result.value.groups.titles, evald.result.value.hidden)
        IN /\ SeqToSet(V) \subseteq DOMAIN TABLES_FIELDS_TYPES
           /\ Cardinality({i \in 1..Len(V) : Unresolved(V[i])}) = 1)
    => LET V == KeepVisible(evald.result.value.groups.titles, evald.result.value.hidden)
           K == KeepResolved(V)
       IN /\ resp.kind = "Query"
          /\ [i \in 1..Len(resp.fields) |-> resp.fields[i].name] = K
          /\ \A r \in 1..Len(resp.rows) : Len(resp.rows[r]) = Len(K)

\* the wire type the column describer is to give a semantic type
DesignatedWireType(type) ==
    CASE type = "Text" -> "TEXT"
      [] type = "Integer" -> "INT8"
      [] type = "Float" -> "FLOAT8"
      [] type = "Boolean" -> "BOOL"
      [] type = "Time" -> "TIME"
      [] type = "Date" -> "DATE"
      [] type = "DateTime" -> "TIME"

\* C9: encode_column of a column whose semantic type is Text, Integer, Float,
\* Boolean, Date, Time or DateTime returns a descriptor with the column's name
\* and the designated wire type; of a column of any other type, an error.
C9_TypeMappingTotal ==
    (pin.kind = "column" /\ pout # NoOutput) =>
        LET type == TABLES_FIELDS_TYPES[pin.string] IN
        /\ ~pout.panic
        /\ type \in SupportedTypes =>
              /\ pout.value.ok
              /\ pout.value.field.name = pin.string
              /\ pout.value.field.datatype = DesignatedWireType(type)
        /\ type \notin SupportedTypes => ~pout.value.ok

\* C9 witness: a DateTime column was described with the wire type TIME.
C9_Witness ==
    /\ pin.kind = "column"
    /\ TABLES_FIELDS_TYPES[pin.string] = "DateTime"
    /\ pout # NoOutput
    /\ pout.value.ok
    /\ pout.value.field.datatype = "TIME"

-----------------------------------------------------------------------------
(* Failures.                                                               *)

\* the request was answered with the error of `stage`, no object was shown
\* and only the collaborators in `ran` were called
StoppedAt(stage, ran) ==
    /\ resp' = [kind |-> "Error", stage |-> stage]
    /\ shown'.none
    /\ ~evald'.result.ok
    /\ evald'.result.ran = ran

\* C11: a simple query whose tokenization fails, whose token list is empty,
\* whose parse fails or whose evaluation fails is answered with the error of
\* that stage; no later collaborator is called and no field descriptor or row
\* is sent.  Only a failed stage produces an error response.  (Repository
\* validation returns Ok at every call, it is no stage that fails.)
C11_FailureStopsPipeline ==
    [][\A S \in SimpleStmts :
          (SimpleQuery(S) /\ ~evald'.none) =>
             LET tokens == Tokenize(evald'.query) IN
             /\ ~tokens.ok => StoppedAt("tokenize", <<"tokenize">>)
             /\ (tokens.ok /\ tokens.value = <<>>)
                   => StoppedAt("empty tokens", <<"tokenize">>)
             /\ (tokens.ok /\ tokens.value # <<>> /\ ~ParseGql(tokens.value).ok)
                   => StoppedAt("parse", <<"tokenize", "parse">>)
             /\ (/\ tokens.ok /\ tokens.value # <<>> /\ ParseGql(tokens.value).ok
                 /\ ~Evaluate(ParseGql(tokens.value).value, db).ok)
                   => StoppedAt("evaluate", <<"tokenize", "parse", "evaluate">>)
             /\ resp'.kind = "Error" => ~evald'.result.ok]_vars

\* C11 witness: a simple query stopped at the parser: the error of the parse
\* stage is the response and the engine was not called.
C11_Witness ==
    /\ req = Request("Simple", StmtParseError)
    /\ resp = ErrorResponse("parse")
    /\ shown.none
    /\ evald.result.ran = <<"tokenize", "parse">>

-----------------------------------------------------------------------------
(* Bound parameters.                                                       *)

WithoutSpaces(text) == SelectSeq(text, NotSpace)

\* the last position of the digits that follow position k of the text
DigitRunEnd(text, k) ==
    CHOOSE e \in k..Len(text) :
        /\ \A j \in (k + 1)..e : text[j] \in Digits
        /\ e = Len(text) \/ text[e + 1] \notin Digits

\* the text from position k on with every $n replaced by the n-th of the
\* values (positions count from 1, the null value is the empty text); an
\* error when a placeholder has no value
RECURSIVE SubstitutedFrom(_, _, _)
SubstitutedFrom(text, k, values) ==
    IF k > Len(text) THEN Ok(<<>>)
    ELSE LET e == IF text[k] = "$" THEN DigitRunEnd(text, k) ELSE k
             n == DecimalValue(SubSeq(text, k + 1, e))
             rest == SubstitutedFrom(text, e + 1, values)
         IN IF e = k
            THEN IF rest.ok THEN Ok(<<text[k]>> \o rest.value) ELSE rest
            ELSE IF n \notin 1..Len(values) THEN Err("missing parameter")
            ELSE IF ~rest.ok THEN rest
            ELSE Ok((IF values[n].some THEN values[n].value ELSE <<>>) \o rest.value)

Substituted(portal) == SubstitutedFrom(portal.statement, 1, portal.parameters)

\* every '$' of the text is followed by a digit: the text holds placeholders
\* and no other use of '$'
PlaceholdersOnly(text) ==
    \A k \in 1..Len(text) :
        text[k] = "$" => (k < Len(text) /\ text[k + 1] \in Digits)

\* C13: when every $n of a portal's statement has a bound value, the text
\* that a portal Describe hands to the tokenizer is the statement with every
\* $n replaced by the n-th bound value (up to the first ';', spaces aside),
\* never the text with the placeholders still in it.
C13_TokenizerGetsSubstitutedText ==
    (/\ pin.kind = "portal"
     /\ PlaceholdersOnly(pin.statement)
     /\ Substituted(pin).ok
     /\ req = Request("Describe", pin.statement)
     /\ ~evald.none)
        => WithoutSpaces(evald.query) = WithoutSpaces(SplitFirst(Substituted(pin).value))

\* C14: make_qeury replaces every $n with 1 <= n <= number of bound values
\* by the n-th value (spaces aside), and it fails, returning no text, when
\* some $n has no bound value (n = 0 or n above the number of values).
C14_PlaceholdersOneBased ==
    (pin.kind = "portal" /\ PlaceholdersOnly(pin.statement) /\ pout # NoOutput)
        => IF Substituted(pin).ok
           THEN /\ ~pout.panic
                /\ WithoutSpaces(pout.value) = WithoutSpaces(Substituted(pin).value)
           ELSE pout.panic

-----------------------------------------------------------------------------
(* The cache over a session.                                               *)

\* C15: an entry stored for a statement text S stays in the cache, unaltered,
\* through every later step of the session except a portal Describe of S:
\* nothing evicts or expires it, and only a Describe of S replaces it.
C15_EntryStaysUntilRedescribed ==
    [][\A S \in DOMAIN cache :
          (S \notin DOMAIN cache' \/ cache'[S] # cache[S])
             => req' = Request("Describe", S)]_vars

-----------------------------------------------------------------------------
(* The cache under requests that run at once.                              *)

\* the places of a handler where it reads or writes the HashMap
InsideCache == {"insert", "inserting", "get", "encode"}

\* C16: whatever the interleaving of the portal Describes and the Executes
\* that run at once on one cache, at most one of them is between its lock and
\* its return, it is the one that holds the Mutex, and what an Execute has
\* read for its key is no entry or a complete entry, never a torn one.
C16_CacheAccessExclusive ==
    /\ Cardinality({t \in DOMAIN conc.task : conc.task[t].pc \in InsideCache}) <= 1
    /\ \A t \in DOMAIN conc.task :
          /\ conc.task[t].pc \in InsideCache => conc.lock = t
          /\ ~conc.task[t].seen.none => conc.task[t].seen.obj # Torn

\* C16 witness: an Execute waits at the lock while a Describe is in the middle
\* of the insert that replaces the entry of the Execute's key.
C16_Witness ==
    /\ conc.task # <<>>
    /\ conc.task[1].pc = "inserting"
    /\ conc.task[2].pc = "execute lock"
    /\ LookupKey(conc.task[2].text) = DescribeKey(conc.task[1].text)
    /\ cache[DescribeKey(conc.task[1].text)] = Torn

-----------------------------------------------------------------------------
(* Session-control statements, statement batches, the read-only Execute.   *)

BeginsWithSet(text) ==
    /\ Len(text) >= 3
    /\ text[1] \in {"s", "S"}
    /\ text[2] \in {"e", "E"}
    /\ text[3] \in {"t", "T"}

\* C17: for a statement text that begins with "set" in any letter case, a
\* portal Describe answers with zero field descriptors, hands nothing to the
\* tokenizer, parser or engine and leaves the cache as it was; an Execute
\* answers with the acknowledgment, whatever the cache holds, and would do so
\* even with an entry under that very text.
C17_SetBypassesPipeline ==
    [][\A S \in PortalStmts : BeginsWithSet(S) =>
          /\ DescribePortal(S) =>
                /\ resp' = [kind |-> "Describe", fields |-> <<>>]
                /\ evald'.none
                /\ shown'.none
                /\ cache' = cache
          /\ Execute(S) =>
                /\ resp' = [kind |-> "Execution", tag |-> [name |-> "OK", rows |-> 1]]
                /\ evald'.none
                /\ shown'.none
                /\ \A k \in DOMAIN cache :
                      ExtendedDoQuery(S, Insert(cache, S, cache[k])).resp = resp']_vars

\* C17 witness: "SET a" was described with an empty schema and nothing was
\* evaluated, while the cache holds the entry of an earlier Describe.
C17_Witness ==
    /\ req = Request("Describe", StmtSetUpper)
    /\ resp = DescribePortalResponse(<<>>)
    /\ evald.none
    /\ cache # <<>>

\* the text up to, not including, its first ';'
FirstStatement(text) ==
    LET n == CHOOSE n \in 0..Len(text) :
                 /\ \A i \in 1..n : text[i] # ";"
                 /\ n = Len(text) \/ text[n + 1] = ";"
    IN SubSeq(text, 1, n)

\* C18: the text a simple query hands to the tokenizer is the request text up
\* to its first ';', and the response is the one every request text with the
\* same first statement gets: nothing after the first ';' has an influence.
C18_OnlyFirstStatement ==
    [][(req'.kind = "Simple" /\ db' = db) =>
          /\ ~evald'.none => evald'.query = FirstStatement(req'.text)
          /\ \A T \in SimpleStmts :
                FirstStatement(T) = FirstStatement(req'.text)
                   => SimpleDoQuery(T, db).resp = resp']_vars

\* C18 witness: the simple query "a;#" was answered with the rows of "a",
\* although the tokenizer rejects the character after the ';'.
C18_Witness ==
    /\ req = Request("Simple", StmtATail)
    /\ resp.kind = "Query"
    /\ resp.rows # <<>>
    /\ evald.query = StmtA

\* C19: an Execute hands nothing to the tokenizer, parser or engine and
\* leaves the cache exactly as it was, whether it finds an entry or not.
C19_ExecuteOnlyReads ==
    [][\A S \in PortalStmts : Execute(S) => (evald'.none /\ cache' = cache)]_vars

\* C19 witness: an Execute found the entry of its text and answered with the
\* rows, nothing was evaluated and the entry is still in the cache.
C19_Witness ==
    /\ req = Request("Execute", StmtA)
    /\ repeats = 1
    /\ resp.kind = "Query"
    /\ evald.none
    /\ StmtA \in DOMAIN cache
    /\ cache[StmtA] = shown.obj

-----------------------------------------------------------------------------
(* The order of the removals.                                              *)

\* s after the removals at the positions of idx, one after the other
RECURSIVE RemoveEach(_, _)
RemoveEach(s, idx) ==
    IF idx = <<>> THEN s ELSE RemoveEach(RemoveAt(s, Head(idx)), Tail(idx))

\* the k-th removal finds at its position the element the original s has there
NoShift(s, idx) ==
    \A k \in 1..Len(idx) :
        /\ idx[k] <= Len(RemoveEach(s, SubSeq(idx, 1, k - 1)))
        /\ RemoveEach(s, SubSeq(idx, 1, k - 1))[idx[k]] = s[idx[k]]

\* C20: the positions removed are the positions of the hidden titles in the
\* engine's title list, taken highest first (strictly descending), so each
\* removal finds at its position the element the original list has there;
\* the titles and every row are the result of these removals in this order.
C20_RemovalsDescend ==
    Projected =>
        LET T == evald.result.value.groups.titles
            H == evald.result.value.hidden
            R == ConcatRows(evald.result.value.groups.groups)
            idx == HiddenIndexes(T, H)
        IN /\ \A i, j \in 1..Len(idx) : i < j => idx[i] > idx[j]
           /\ {idx[k] : k \in 1..Len(idx)} = {p \in 1..Len(T) : T[p] \in H}
           /\ NoShift(T, idx)
           /\ shown.obj.titles = RemoveEach(T, idx)
           /\ Len(RowsOf(shown.obj)) = Len(R)
           /\ \A r \in 1..Len(R) :
                 /\ NoShift(R[r].values, idx)
                 /\ RowsOf(shown.obj)[r].values = RemoveEach(R[r].values, idx)

\* C20 witness: the second and the third of three titles were hidden and
\* removed from the titles and from the rows, the first one is kept.
C20_Witness ==
    /\ Projected
    /\ Len(evald.result.value.groups.titles) = 3
    /\ shown.obj.titles = <<evald.result.value.groups.titles[1]>>
    /\ RowsOf(shown.obj) # <<>>
    /\ \A r \in 1..Len(RowsOf(shown.obj)) : Len(RowsOf(shown.obj)[r].values) = 1

-----------------------------------------------------------------------------
(* The encoded rows.                                                       *)

\* every row has a field descriptor for each of its values
WellFormedRows(rows, fields_info) ==
    \A r \in 1..Len(rows) : Len(rows[r].values) <= Len(fields_info)

\* C21: encode_row of an object whose first group holds well-formed rows (no
\* more values than field descriptors) does not fail and yields one encoded
\* row per row, in the order of the rows, with one encoded field per value in
\* the order of the values: the value itself when its variant is Text,
\* Integer, Float, Boolean, Time, Date or DateTime, the SQL null otherwise.
C21_OneEncodedRowPerRow ==
    (/\ pin.kind = "rows"
     /\ pout # NoOutput
     /\ WellFormedRows(pin.groups.groups[1].rows, pin.fields_info))
        => LET rows == pin.groups.groups[1].rows IN
           /\ ~pout.panic
           /\ Len(pout.value) = Len(rows)
           /\ \A r \in 1..Len(rows) :
                 /\ Len(pout.value[r]) = Len(rows[r].values)
                 /\ \A i \in 1..Len(rows[r].values) :
                       LET value == rows[r].values[i] IN
                       IF value.variant \in {"Text", "Integer", "Float", "Boolean",
                                             "Time", "Date", "DateTime"}
                       THEN pout.value[r][i] =
                              [null |-> FALSE, variant |-> value.variant, data |-> value.data]
                       ELSE pout.value[r][i] = [null |-> TRUE]

\* C21 witness: two rows of a DateTime and an Undefined value were encoded,
\* the second field of each is the SQL null.
C21_Witness ==
    /\ pin.kind = "rows"
    /\ pout # NoOutput
    /\ ~pout.panic
    /\ Len(pout.value) = 2
    /\ Len(pout.value[2]) = 2
    /\ pin.groups.groups[1].rows[2].values[1].variant = "DateTime"
    /\ pin.groups.groups[1].rows[2].values[2].variant = "Undefined"
    /\ ~pout.value[2][1].null
    /\ pout.value[2][2].null

-----------------------------------------------------------------------------
(* The lifecycle of a simple query.                                        *)

LifecycleStages ==
    {"Received", "Tokenized", "Parsed", "Evaluated", "Projected", "Streaming",
     "Done", "Error"}

\* C22: a simple query is at every moment in one of the stages Received,
\* Tokenized, Parsed, Evaluated, Projected, Streaming, Done or Error: when its
\* handler stops, the request has ended in Done or in Error.
C22_LifecycleEndsInDoneOrError == life.stage \in LifecycleStages

-----------------------------------------------------------------------------
(* Results without a group.                                                *)

\* C23: when the engine result is selected groups with zero groups, the
\* simple query answers with a query response of zero rows and the portal
\* Describe with its schema, and an Execute that finds a cached object with
\* zero groups answers with a query response of zero rows: none of them fails.
C23_ZeroGroupsAnswered ==
    /\ (/\ req.kind \in {"Simple", "Describe"}
        /\ IsSelection(evald)
        /\ evald.result.value.groups.groups = <<>>)
          => /\ resp.kind \in {"Query", "Describe"}
             /\ resp.kind = "Query" => resp.rows = <<>>
    /\ (/\ req.kind = "Execute"
        /\ ~shown.none
        /\ shown.obj.groups = <<>>)
          => (resp.kind = "Query" /\ resp.rows = <<>>)

-----------------------------------------------------------------------------
(* The caches of two connections.                                          *)

\* C24: the handler make() builds for a connection starts with an empty
\* cache; a request on one connection leaves the cache of the other as it
\* was, so a Describe on one never changes what an Execute returns on the
\* other; and an Execute of S on a connection that never described S returns
\* the acknowledgment of a cache miss, whatever the other connection described.
C24_CachesIsolated ==
    [][/\ PeerConnects => (peer'.cache = <<>> /\ cache' = cache)
       /\ \A S \in LockStmts :
             /\ (PeerDescribe(S) \/ PeerExecute(S)) => cache' = cache
             /\ (DescribePortal(S) \/ Execute(S)) => peer' = peer
             /\ (watch = S /\ ~watched /\ Execute(S) /\ alive')
                   => resp' = [kind |-> "Execution", tag |-> [name |-> "OK", rows |-> 1]]]_vars

-----------------------------------------------------------------------------
(* Statement-level Describe.                                               *)

\* C25: a statement-level Describe of any text is answered with an error,
\* hands nothing to the engine and leaves the cache as it was, with or
\* without entries; as long as no portal Describe was made in the session,
\* whatever statement-level Describes were, an Execute of any text is
\* answered with the acknowledgment of a cache miss.
C25_StatementDescribeFails ==
    [][\A S \in PortalStmts :
          /\ DescribeStatement(S) =>
                /\ resp'.kind = "Error"
                /\ evald'.none
                /\ shown'.none
                /\ cache' = cache
          /\ (~watched /\ Execute(S)) =>
                resp' = [kind |-> "Execution", tag |-> [name |-> "OK", rows |-> 1]]]_vars

\* C25 witness: after a portal Describe stored "a", a statement-level
\* Describe of "a" was answered with an error and the entry is still there.
C25_Witness ==
    /\ req = Request("DescribeStatement", StmtA)
    /\ resp.kind = "Error"
    /\ alive
    /\ StmtA \in DOMAIN cache

====
